---- MODULE Spec2Model ----
(***************************************************************************)
(* Model of gen.py: the constrained layout engine (rejection-sampling      *)
(* placement of the fixed catalogue, the two forced motifs), the whole-    *)
(* scene retry wrapper generate_one, and the export pipeline.              *)
(*                                                                         *)
(* Lengths are integers in units of 0.05 (so 0.85 is 17, 0.15 is 3, the    *)
(* canvas is -200..200 by -160..160); every length of the source is a      *)
(* multiple of 0.05.  Line widths are in tenths of a point.                *)
(***************************************************************************)
EXTENDS Integers, Sequences, FiniteSets, TLC

VARIABLES
    pc,        \* position of generate_one / generate_scene_with_leads
    attempt,   \* iterations of "for _ in range(80)" started so far
    last_err,  \* generate_one.last_err
    err,       \* exception that left generate_one ("none" while running)
    i,         \* index into component_specs() of the loop at line 267
    tries,     \* iterations of "for _ in range(4000)" used by the current search
    style,     \* line_w chosen at line 149
    occupied,  \* generate_scene_with_leads.occupied
    cmds,      \* generate_scene_with_leads.cmds
    comps,     \* generate_scene_with_leads.comps
    markers,   \* generate_scene_with_leads.markers
    scene,     \* (style, body, comps, markers) bound at line 315
    files,     \* files of this sample written so far
    json,      \* content dumped at lines 336-356
    ra, rb, rpad, rres  \* arguments and results of rects_overlap applied on its own

sceneVars == <<pc, attempt, last_err, err, i, tries, style, occupied, cmds,
               comps, markers, scene, files, json>>
ovVars == <<ra, rb, rpad, rres>>
vars == <<pc, attempt, last_err, err, i, tries, style, occupied, cmds,
          comps, markers, scene, files, json, ra, rb, rpad, rres>>

---------------------------------------------------------------------------
(* Bounds of the model *)

\* the per-element search "for _ in range(4000)" is run with this many iterations
MaxTries == 2
\* the whole-scene retry "for _ in range(80)" is run with this many iterations
MaxScenes == 2
\* random.uniform(a, b) takes the values a + (b-a)*u/Grid, u in 0..Grid
Grid == 8
\* rectangles given to rects_overlap on its own have corners in 0..MaxCoord
MaxCoord == 2
\* pads given to rects_overlap on its own are in 0..MaxPad
MaxPad == 2

---------------------------------------------------------------------------
(* Program constants, in units of 0.05 *)

vx1 == -200
vy1 == -160
vx2 == 200
vy2 == 160
margin == 24
pad == 17
overlap_pad == 3
comp_len_choices == {32, 36, 40, 44}
lead_len_choices == {16, 20, 24}
line_w_choices == {8, 10, 12}
trafo_lead_choices == {18, 22, 26}
trafo_inset == 40
trafo_half == 44
trafo_dx == 32
trafo_dy == 38
junction_inset == 50
junction_arm == 40
jump_inset == 60
jump_half_v == 44
jump_half_h == 48
gap == 6
hump_h == 6

component_specs ==
    << [cid |-> "AC1",   ctype |-> "ACSource",      element |-> "sV",          label |-> "AC"],
       [cid |-> "BAT1",  ctype |-> "Battery",       element |-> "battery",     label |-> "BAT"],
       [cid |-> "C1",    ctype |-> "Capacitor",     element |-> "C",           label |-> "C1"],
       [cid |-> "D1",    ctype |-> "Diode",         element |-> "D",           label |-> "D1"],
       [cid |-> "V1",    ctype |-> "VoltageSource", element |-> "V",           label |-> "V1"],
       [cid |-> "L1",    ctype |-> "Inductor",      element |-> "L",           label |-> "L1"],
       [cid |-> "I1",    ctype |-> "CurrentSource", element |-> "I",           label |-> "I1"],
       [cid |-> "SW_ID", ctype |-> "IdealSwitch",   element |-> "switch",      label |-> "SW"],
       [cid |-> "SW_R",  ctype |-> "RealSwitch",    element |-> "switch",      label |-> "SWr"],
       [cid |-> "T1",    ctype |-> "Transformer",   element |-> "transformer", label |-> "T1"],
       [cid |-> "R1",    ctype |-> "Resistor",      element |-> "R",           label |-> "R1"] >>

---------------------------------------------------------------------------
(* Geometry helpers *)

SetMin(S) == CHOOSE x \in S : \A y \in S : x <= y
SetMax(S) == CHOOSE x \in S : \A y \in S : y <= x

\* rect_from_points(pts, pad): pts is a sequence of points <<x, y>>
rect_from_points(pts, p) ==
    LET xs == {pts[n][1] : n \in 1..Len(pts)}
        ys == {pts[n][2] : n \in 1..Len(pts)}
    IN  <<SetMin(xs) - p, SetMin(ys) - p, SetMax(xs) + p, SetMax(ys) + p>>

\* rects_overlap with the comparisons made inclusive
rects_overlap_inclusive(a, b, p) ==
    ~ (a[3] + p <= b[1] \/ b[3] + p <= a[1] \/ a[4] + p <= b[2] \/ b[4] + p <= a[2])

\* rects_overlap with the pad left out of the comparisons
rects_overlap_nopad(a, b, p) ==
    ~ (a[3] < b[1] \/ b[3] < a[1] \/ a[4] < b[2] \/ b[4] < a[2])

\* rects_overlap(a, b, pad): a = <<ax1, ay1, ax2, ay2>>, b = <<bx1, by1, bx2, by2>>
rects_overlap(a, b, p) ==
    ~ (a[3] + p < b[1] \/ b[3] + p < a[1] \/ a[4] + p < b[2] \/ b[4] + p < a[2])

\* any(rects_overlap(bb, old, pad=0.15) for old in occupied)
overlaps_any(bb, occ) ==
    \E n \in 1..Len(occ) : rects_overlap(bb, occ[n], overlap_pad)

\* random.uniform(a, b) = a + (b-a) * random(), with random() = u/Grid
uniform(a, b, u) == a + ((b - a) * u) \div Grid

---------------------------------------------------------------------------
(* The random source.  random.choice and random.uniform are nondeterministic *)
(* draws; the draws examined for each search are the ones listed here.       *)

\* draws (ori, L, lead, random() for cx, random() for cy) of the search for
\* component_specs[n]; entry 10 is T1's, read only by a loop that does not skip T1
TwoPinDraws ==
    << {[ori |-> "h", L |-> 44, lead |-> 24, ux |-> 0, uy |-> Grid],
        [ori |-> "v", L |-> 32, lead |-> 16, ux |-> 2, uy |-> 4]},
       {[ori |-> "v", L |-> 32, lead |-> 16, ux |-> Grid, uy |-> 0],
        [ori |-> "h", L |-> 32, lead |-> 16, ux |-> 0, uy |-> Grid]},
       {[ori |-> "h", L |-> 36, lead |-> 20, ux |-> 6, uy |-> 0]},
       {[ori |-> "v", L |-> 40, lead |-> 24, ux |-> 0, uy |-> 6],
        [ori |-> "v", L |-> 44, lead |-> 24, ux |-> 0, uy |-> 6]},
       {[ori |-> "h", L |-> 32, lead |-> 16, ux |-> 5, uy |-> Grid]},
       {[ori |-> "v", L |-> 44, lead |-> 20, ux |-> 1, uy |-> 6]},
       {[ori |-> "h", L |-> 40, lead |-> 16, ux |-> Grid, uy |-> 3],
        [ori |-> "h", L |-> 32, lead |-> 16, ux |-> Grid, uy |-> 3]},
       {[ori |-> "v", L |-> 36, lead |-> 24, ux |-> 3, uy |-> 0]},
       {[ori |-> "h", L |-> 44, lead |-> 20, ux |-> 4, uy |-> 6]},
       {[ori |-> "v", L |-> 32, lead |-> 16, ux |-> Grid, uy |-> Grid]},
       {[ori |-> "h", L |-> 32, lead |-> 24, ux |-> 4, uy |-> 4],
        [ori |-> "h", L |-> 44, lead |-> 24, ux |-> 4, uy |-> 4],
        [ori |-> "h", L |-> 44, lead |-> 24, ux |-> 0, uy |-> Grid]} >>

\* draws (random() for x, random() for y) of the transformer, the junction and
\* the wire jump: the two extreme corners and the centre
CornerDraws == {<<0, 0>>, <<Grid, Grid>>}
MotifDraws == {<<0, 0>>, <<Grid \div 2, Grid \div 2>>, <<Grid, Grid>>}

---------------------------------------------------------------------------
(* Candidate geometry *)

\* the range of a centre coordinate with the element's reach added to the
\* upper bound instead of taken from it
center_range_outward(lo, hi, ext) == <<lo + margin + ext, hi - margin + ext>>

\* (vx1 + margin + ext, vx2 - margin - ext) of lines 173-176 and 183-186
center_range(lo, hi, ext) == <<lo + margin + ext, hi - margin - ext>>

\* one candidate of place_two_pin: p1, p2, lead ends w1, w2 and padded bbox bb
two_pin_candidate(d) ==
    LET half == d.L \div 2
        ext  == half + d.lead
        xr   == IF d.ori = "h" THEN center_range(vx1, vx2, ext)
                               ELSE center_range(vx1, vx2, 0)
        yr   == IF d.ori = "h" THEN center_range(vy1, vy2, 0)
                               ELSE center_range(vy1, vy2, ext)
        cx   == uniform(xr[1], xr[2], d.ux)
        cy   == uniform(yr[1], yr[2], d.uy)
        p1   == IF d.ori = "h" THEN <<cx - half, cy>> ELSE <<cx, cy - half>>
        p2   == IF d.ori = "h" THEN <<cx + half, cy>> ELSE <<cx, cy + half>>
        w1   == IF d.ori = "h" THEN <<p1[1] - d.lead, cy>> ELSE <<cx, p1[2] - d.lead>>
        w2   == IF d.ori = "h" THEN <<p2[1] + d.lead, cy>> ELSE <<cx, p2[2] + d.lead>>
    IN  [p1 |-> p1, p2 |-> p2, w1 |-> w1, w2 |-> w2,
         bb |-> rect_from_points(<<p1, p2, w1, w2>>, pad)]

\* ComponentGT of a placed two-terminal element
two_pin_record(s, d, c) ==
    [cid |-> s.cid, ctype |-> s.ctype, p1 |-> c.p1, p2 |-> c.p2, orientation |-> d.ori,
     attrs |-> [label |-> s.label, element |-> s.element, lead_len |-> d.lead,
                lead_end_1 |-> c.w1, lead_end_2 |-> c.w2]]

\* one candidate of place_transformer_node: centre and footprint
transformer_candidate(u) ==
    LET xr == center_range(vx1, vx2, trafo_inset)
        yr == center_range(vy1, vy2, trafo_inset)
        x  == uniform(xr[1], xr[2], u[1])
        y  == uniform(yr[1], yr[2], u[2])
    IN  [x |-> x, y |-> y,
         bb |-> <<x - trafo_half, y - trafo_half, x + trafo_half, y + trafo_half>>]

\* ComponentGT of the transformer
transformer_record(c, lead) ==
    [cid |-> "T1", ctype |-> "Transformer",
     p1 |-> <<c.x - trafo_dx, c.y + trafo_dy>>, p2 |-> <<c.x + trafo_dx, c.y - trafo_dy>>,
     orientation |-> "na", attrs |-> [label |-> "T1", lead_len |-> lead]]

\* centre of a forced motif kept inset inside the margin
motif_center(inset, u) ==
    LET xr == center_range(vx1, vx2, inset)
        yr == center_range(vy1, vy2, inset)
    IN  <<uniform(xr[1], xr[2], u[1]), uniform(yr[1], yr[2], u[2])>>

\* the junction marker recorded under the wrong kind
junction_marker_as_jump(c) ==
    [mid |-> "JUNC1", mtype |-> "wire_jump", center |-> c, attrs |-> [min_degree |-> 3]]

junction_marker(c) ==
    [mid |-> "JUNC1", mtype |-> "junction", center |-> c, attrs |-> [min_degree |-> 3]]

wire_jump_marker(c) ==
    [mid |-> "JUMP1", mtype |-> "wire_jump", center |-> c,
     attrs |-> [gap |-> gap, hump_h |-> hump_h]]

---------------------------------------------------------------------------
(* Initial state: generate_one(idx) has just been called *)

NoScene == [built |-> FALSE, style |-> 0, body |-> <<>>, comps |-> <<>>, markers |-> <<>>]
NoJson == [written |-> FALSE, components |-> <<>>, markers |-> <<>>]

InitScene ==
    /\ pc = "start"
    /\ attempt = 0
    /\ last_err = "none"
    /\ err = "none"
    /\ i = 0
    /\ tries = 0
    /\ style = 0
    /\ occupied = <<>>
    /\ cmds = <<>>
    /\ comps = <<>>
    /\ markers = <<>>
    /\ scene = NoScene
    /\ files = {}
    /\ json = NoJson

Init ==
    /\ InitScene
    /\ ra = <<0, 0, 0, 0>>
    /\ rb = <<0, 0, 0, 0>>
    /\ rpad = 0
    /\ rres = [applied |-> FALSE, ab |-> FALSE, ba |-> FALSE]

---------------------------------------------------------------------------
(* generate_one: the whole-scene retry loop *)

\* lines 309-312: makedirs, last_err = None
generate_one_begin ==
    /\ pc = "start"
    /\ pc' = "retry_loop"
    /\ attempt' = 0
    /\ last_err' = "none"
    /\ UNCHANGED <<err, i, tries, style, occupied, cmds, comps, markers, scene, files, json>>
    /\ UNCHANGED ovVars

\* the retry loop with the iteration counter not advanced
retry_loop_uncounted ==
    /\ pc = "retry_loop"
    /\ IF attempt < MaxScenes
       THEN /\ pc' = "scene_init"
            /\ UNCHANGED <<attempt, err>>
       ELSE /\ pc' = "error"
            /\ err' = last_err
            /\ UNCHANGED attempt
    /\ UNCHANGED <<last_err, i, tries, style, occupied, cmds, comps, markers, scene, files, json>>
    /\ UNCHANGED ovVars

\* lines 313-320: the next iteration of "for _ in range(80)" calls
\* generate_scene_with_leads; the else branch of the loop raises last_err
retry_loop ==
    /\ pc = "retry_loop"
    /\ IF attempt < MaxScenes
       THEN /\ attempt' = attempt + 1
            /\ pc' = "scene_init"
            /\ UNCHANGED err
       ELSE /\ pc' = "error"
            /\ err' = last_err
            /\ UNCHANGED attempt
    /\ UNCHANGED <<last_err, i, tries, style, occupied, cmds, comps, markers, scene, files, json>>
    /\ UNCHANGED ovVars

---------------------------------------------------------------------------
(* generate_scene_with_leads *)

\* the entry of generate_scene_with_leads with the lists kept from the last call
scene_init_keeping_lists ==
    /\ pc = "scene_init"
    /\ \E lw \in line_w_choices : style' = lw
    /\ tries' = 0
    /\ i' = 0
    /\ pc' = "place_transformer"
    /\ UNCHANGED <<comps, markers, cmds, occupied>>
    /\ UNCHANGED <<attempt, last_err, err, scene, files, json>>
    /\ UNCHANGED ovVars

\* lines 141-161: fresh comps, markers, cmds and occupied; line_w drawn
scene_init ==
    /\ pc = "scene_init"
    /\ comps' = <<>>
    /\ markers' = <<>>
    /\ cmds' = <<>>
    /\ occupied' = <<>>
    /\ \E lw \in line_w_choices : style' = lw
    /\ tries' = 0
    /\ i' = 0
    /\ pc' = "place_transformer"
    /\ UNCHANGED <<attempt, last_err, err, scene, files, json>>
    /\ UNCHANGED ovVars

\* the except clause of lines 317-318 reached by a RuntimeError of a search
raise_to_retry(msg) ==
    /\ last_err' = msg
    /\ pc' = "retry_loop"
    /\ UNCHANGED <<i, tries, style, occupied, cmds, comps, markers>>

\* lines 229-261 and 264: one iteration of the transformer's search, or its raise
place_transformer_node ==
    /\ pc = "place_transformer"
    /\ IF tries < MaxTries
       THEN \E u \in CornerDraws :
              LET c == transformer_candidate(u)
              IN  IF overlaps_any(c.bb, occupied)
                  THEN /\ tries' = tries + 1
                       /\ UNCHANGED <<pc, i, occupied, cmds, comps, last_err>>
                  ELSE \E lead \in trafo_lead_choices :
                       /\ occupied' = Append(occupied, c.bb)
                       /\ cmds' = cmds \o <<<<"node", "T1">>, <<"lead_A1", "T1">>,
                                            <<"lead_A2", "T1">>, <<"lead_B1", "T1">>,
                                            <<"lead_B2", "T1">>>>
                       /\ comps' = Append(comps, transformer_record(c, lead))
                       /\ pc' = "spec_loop"
                       /\ i' = 1
                       /\ tries' = 0
                       /\ UNCHANGED last_err
            /\ UNCHANGED <<style, markers>>
       ELSE raise_to_retry("Could not place transformer without overlap.")
    /\ UNCHANGED <<attempt, err, scene, files, json>>
    /\ UNCHANGED ovVars

\* the loop at line 267 entered for every catalogue entry, T1 included
skip_none(cid) == FALSE

\* lines 268-269: "if cid == 'T1': continue"
skip_in_loop(cid) == cid = "T1"

\* lines 267-270: the loop over component_specs()
spec_loop ==
    /\ pc = "spec_loop"
    /\ IF i > Len(component_specs)
       THEN /\ pc' = "junction"
            /\ UNCHANGED <<i, tries>>
       ELSE IF skip_in_loop(component_specs[i].cid)
            THEN /\ i' = i + 1
                 /\ UNCHANGED <<pc, tries>>
            ELSE /\ pc' = "place_two_pin"
                 /\ tries' = 0
                 /\ UNCHANGED i
    /\ UNCHANGED <<attempt, last_err, err, style, occupied, cmds, comps, markers,
                   scene, files, json>>
    /\ UNCHANGED ovVars

\* an accepted candidate recorded without its occupied region
commit_two_pin_unrecorded(s, d, c) ==
    /\ occupied' = occupied
    /\ cmds' = cmds \o <<<<"to", s.cid>>, <<"lead_1", s.cid>>, <<"lead_2", s.cid>>>>
    /\ comps' = Append(comps, two_pin_record(s, d, c))

\* lines 197-222: the accepted candidate is committed
commit_two_pin(s, d, c) ==
    /\ occupied' = Append(occupied, c.bb)
    /\ cmds' = cmds \o <<<<"to", s.cid>>, <<"lead_1", s.cid>>, <<"lead_2", s.cid>>>>
    /\ comps' = Append(comps, two_pin_record(s, d, c))

\* lines 163-227: one iteration of a two-terminal element's search, or its raise
place_two_pin ==
    /\ pc = "place_two_pin"
    /\ IF tries < MaxTries
       THEN \E d \in TwoPinDraws[i] :
              /\ d.ori \in {"h", "v"}
              /\ d.L \in comp_len_choices
              /\ d.lead \in lead_len_choices
              /\ d.ux \in 0..Grid
              /\ d.uy \in 0..Grid
              /\ LET c == two_pin_candidate(d)
                 IN  IF overlaps_any(c.bb, occupied)
                     THEN /\ tries' = tries + 1
                          /\ UNCHANGED <<pc, i, occupied, cmds, comps>>
                     ELSE /\ commit_two_pin(component_specs[i], d, c)
                          /\ pc' = "spec_loop"
                          /\ i' = i + 1
                          /\ UNCHANGED tries
              /\ UNCHANGED <<style, markers, last_err>>
       ELSE raise_to_retry(component_specs[i].cid)
    /\ UNCHANGED <<attempt, err, scene, files, json>>
    /\ UNCHANGED ovVars

\* a junction placement that reserves its region like a catalogue element
force_junction_reserving ==
    /\ pc = "junction"
    /\ \E u \in MotifDraws :
         LET c == motif_center(junction_inset, u)
         IN  /\ markers' = Append(markers, junction_marker(c))
             /\ occupied' = Append(occupied,
                   <<c[1] - junction_arm, c[2], c[1] + junction_arm, c[2] + junction_arm>>)
    /\ cmds' = cmds \o <<<<"wire_w", "JUNC1">>, <<"wire_e", "JUNC1">>,
                         <<"wire_n", "JUNC1">>, <<"dot", "JUNC1">>>>
    /\ pc' = "wire_jump"
    /\ UNCHANGED <<attempt, last_err, err, i, tries, style, comps, scene, files, json>>
    /\ UNCHANGED ovVars

\* lines 272-282: the forced junction, placed without any overlap test
force_junction ==
    /\ pc = "junction"
    /\ \E u \in MotifDraws :
         markers' = Append(markers, junction_marker(motif_center(junction_inset, u)))
    /\ cmds' = cmds \o <<<<"wire_w", "JUNC1">>, <<"wire_e", "JUNC1">>,
                         <<"wire_n", "JUNC1">>, <<"dot", "JUNC1">>>>
    /\ pc' = "wire_jump"
    /\ UNCHANGED <<attempt, last_err, err, i, tries, style, occupied, comps, scene,
                   files, json>>
    /\ UNCHANGED ovVars

\* lines 284-297: the forced wire jump, placed without any overlap test
force_wire_jump ==
    /\ pc = "wire_jump"
    /\ \E u \in MotifDraws :
         markers' = Append(markers, wire_jump_marker(motif_center(jump_inset, u)))
    /\ cmds' = cmds \o <<<<"wire_v", "JUMP1">>, <<"wire_w", "JUMP1">>,
                         <<"hump", "JUMP1">>, <<"wire_e", "JUMP1">>>>
    /\ pc' = "return_scene"
    /\ UNCHANGED <<attempt, last_err, err, i, tries, style, occupied, comps, scene,
                   files, json>>
    /\ UNCHANGED ovVars

\* lines 299-305 and 315-316: the body is assembled, the scene returned and
\* bound in generate_one, and the retry loop left by break
return_scene ==
    /\ pc = "return_scene"
    /\ scene' = [built |-> TRUE, style |-> style,
                 body |-> <<<<"bounding_box", <<vx1, vy1, vx2, vy2>>>>>> \o cmds,
                 comps |-> comps, markers |-> markers]
    /\ pc' = "write_tex"
    /\ UNCHANGED <<attempt, last_err, err, i, tries, style, occupied, cmds, comps,
                   markers, files, json>>
    /\ UNCHANGED ovVars

---------------------------------------------------------------------------
(* generate_one: export *)

\* the ground truth dumped together with the .tex source
write_tex_and_json ==
    /\ pc = "write_tex"
    /\ files' = files \cup {"tex", "json"}
    /\ json' = [written |-> TRUE, components |-> scene.comps, markers |-> scene.markers]
    /\ pc' = "pdflatex"
    /\ UNCHANGED <<attempt, last_err, err, i, tries, style, occupied, cmds, comps,
                   markers, scene>>
    /\ UNCHANGED ovVars

\* lines 322-331: the .tex source is written
write_tex ==
    /\ pc = "write_tex"
    /\ files' = files \cup {"tex"}
    /\ pc' = "pdflatex"
    /\ UNCHANGED <<attempt, last_err, err, i, tries, style, occupied, cmds, comps,
                   markers, scene, json>>
    /\ UNCHANGED ovVars

\* lines 33-46 and 333: pdflatex runs; it leaves a PDF or it does not
compile_tex_to_pdf ==
    /\ pc = "pdflatex"
    /\ \E produced \in BOOLEAN :
         IF produced
         THEN /\ files' = files \cup {"pdf"}
              /\ pc' = "pdftoppm"
              /\ UNCHANGED err
         ELSE /\ err' = "pdflatex did not produce PDF"
              /\ pc' = "error"
              /\ UNCHANGED files
    /\ UNCHANGED <<attempt, last_err, i, tries, style, occupied, cmds, comps, markers,
                   scene, json>>
    /\ UNCHANGED ovVars

\* lines 49-71 and 334: pdftoppm runs; it leaves a PNG or it does not
pdf_to_png ==
    /\ pc = "pdftoppm"
    /\ \E produced \in BOOLEAN :
         IF produced
         THEN /\ files' = files \cup {"png"}
              /\ pc' = "write_json"
              /\ UNCHANGED err
         ELSE /\ err' = "pdftoppm did not produce png"
              /\ pc' = "error"
              /\ UNCHANGED files
    /\ UNCHANGED <<attempt, last_err, i, tries, style, occupied, cmds, comps, markers,
                   scene, json>>
    /\ UNCHANGED ovVars

\* lines 336-365: the ground truth is dumped
write_json ==
    /\ pc = "write_json"
    /\ files' = files \cup {"json"}
    /\ json' = [written |-> TRUE, components |-> scene.comps, markers |-> scene.markers]
    /\ pc' = "done"
    /\ UNCHANGED <<attempt, last_err, err, i, tries, style, occupied, cmds, comps,
                   markers, scene>>
    /\ UNCHANGED ovVars

Next ==
    \/ generate_one_begin
    \/ retry_loop
    \/ scene_init
    \/ place_transformer_node
    \/ spec_loop
    \/ place_two_pin
    \/ force_junction
    \/ force_wire_jump
    \/ return_scene
    \/ write_tex
    \/ compile_tex_to_pdf
    \/ pdf_to_png
    \/ write_json

Spec == Init /\ [][Next]_vars

---------------------------------------------------------------------------
(* rects_overlap applied on its own to bounded rectangles *)

Rects ==
    {<<x1, y1, x2, y2>> : x1 \in 0..MaxCoord, y1 \in 0..MaxCoord,
                          x2 \in 0..MaxCoord, y2 \in 0..MaxCoord}

InitOverlap ==
    /\ InitScene
    /\ ra \in {r \in Rects : r[1] <= r[3] /\ r[2] <= r[4]}
    /\ rb \in {r \in Rects : r[1] <= r[3] /\ r[2] <= r[4]}
    /\ rpad \in 0..MaxPad
    /\ rres = [applied |-> FALSE, ab |-> FALSE, ba |-> FALSE]

apply_rects_overlap ==
    /\ ~ rres.applied
    /\ rres' = [applied |-> TRUE, ab |-> rects_overlap(ra, rb, rpad),
                ba |-> rects_overlap(rb, ra, rpad)]
    /\ UNCHANGED <<ra, rb, rpad>>
    /\ UNCHANGED sceneVars

NextOverlap == apply_rects_overlap

SpecOverlap == InitOverlap /\ [][NextOverlap]_vars

---------------------------------------------------------------------------
(* Vocabulary of the properties *)

Max(a, b) == IF a >= b THEN a ELSE b

\* distance between the projections of a and b on the x axis and on the y axis
\* (negative when the projections intersect)
GapX(a, b) == Max(b[1] - a[3], a[1] - b[3])
GapY(a, b) == Max(b[2] - a[4], a[2] - b[4])

SeparatedByMoreThan(a, b, t) == GapX(a, b) > t \/ GapY(a, b) > t
SeparatedByAtLeast(a, b, t) == GapX(a, b) >= t \/ GapY(a, b) >= t

IsTwoPin(c) == c.orientation \in {"h", "v"}

\* every coordinate a ComponentGT records
RecordedPoints(c) ==
    IF IsTwoPin(c) THEN <<c.p1, c.p2, c.attrs.lead_end_1, c.attrs.lead_end_2>>
                   ELSE <<c.p1, c.p2>>

\* bounding box of the recorded coordinates, expanded by the padding
RecordedBox(c) == rect_from_points(RecordedPoints(c), pad)

\* the region the placement reserved for a record: the padded box of a
\* two-terminal element, the footprint round the centre of the transformer
ReservedBox(c) ==
    IF IsTwoPin(c)
    THEN RecordedBox(c)
    ELSE LET x == (c.p1[1] + c.p2[1]) \div 2
             y == (c.p1[2] + c.p2[2]) \div 2
         IN  <<x - trafo_half, y - trafo_half, x + trafo_half, y + trafo_half>>

InView(p) == vx1 <= p[1] /\ p[1] <= vx2 /\ vy1 <= p[2] /\ p[2] <= vy2

\* every coordinate recorded in the components cs and the markers ms is in view
AllInView(cs, ms) ==
    /\ \A n \in 1..Len(cs) :
         \A k \in 1..Len(RecordedPoints(cs[n])) : InView(RecordedPoints(cs[n])[k])
    /\ \A n \in 1..Len(ms) : InView(ms[n].center)

Cids(cs) == {cs[n].cid : n \in 1..Len(cs)}

IsPrefix(s, t) == Len(s) <= Len(t) /\ \A n \in 1..Len(s) : s[n] = t[n]

\* extent of the wires drawn for a marker
MotifBox(m) ==
    IF m.mtype = "junction"
    THEN <<m.center[1] - junction_arm, m.center[2],
           m.center[1] + junction_arm, m.center[2] + junction_arm>>
    ELSE <<m.center[1] - jump_half_h, m.center[2] - jump_half_v,
           m.center[1] + jump_half_h, m.center[2] + jump_half_v>>

\* generate_scene_with_leads has just returned its scene to generate_one
SceneReturned == pc = "write_tex" /\ scene.built

PlacementFailure == {component_specs[n].cid : n \in 1..Len(component_specs)}
                        \cup {"Could not place transformer without overlap."}

---------------------------------------------------------------------------
(* Claims *)

\* C1 as stated: in every returned scene, the padded bounding boxes of the
\* recorded coordinates of any two distinct ComponentGT records (T1 included)
\* do not overlap under the tolerance 0.15.
C1_RecordedBoxesDisjoint ==
    SceneReturned =>
        \A a, b \in 1..Len(scene.comps) :
            a < b => SeparatedByMoreThan(RecordedBox(scene.comps[a]),
                                         RecordedBox(scene.comps[b]), overlap_pad)

\* C1 amended: in every returned scene, the regions reserved for any two
\* distinct ComponentGT records (the padded box of p1, p2 and both lead ends of
\* a two-terminal element; the footprint x+-2.2, y+-2.2 of T1) are separated by
\* more than the tolerance 0.15 along some axis.
C1_ReservedBoxesDisjoint ==
    SceneReturned =>
        \A a, b \in 1..Len(scene.comps) :
            a < b => SeparatedByMoreThan(ReservedBox(scene.comps[a]),
                                         ReservedBox(scene.comps[b]), overlap_pad)

\* a returned scene in which a two-terminal element lies clear of T1's
\* footprint but inside the padded box of T1's recorded p1, p2
C1_Witness ==
    /\ scene.built
    /\ \E a, b \in 1..Len(scene.comps) :
         /\ scene.comps[a].cid = "T1"
         /\ IsTwoPin(scene.comps[b])
         /\ SeparatedByMoreThan(ReservedBox(scene.comps[a]),
                                ReservedBox(scene.comps[b]), overlap_pad)
         /\ ~ SeparatedByMoreThan(RecordedBox(scene.comps[a]),
                                  RecordedBox(scene.comps[b]), overlap_pad)

\* C2: every coordinate recorded in ground truth (p1, p2 of every component,
\* both lead ends of every two-terminal component, the center of both
\* markers) lies inside view_bbox, in the lists under construction and so in
\* every returned scene.
C2_Containment ==
    /\ pc \in {"spec_loop", "wire_jump", "return_scene"} => AllInView(comps, markers)
    /\ SceneReturned => AllInView(scene.comps, scene.markers)

\* a returned scene holding a horizontal and a vertical element of the largest
\* body and lead whose lead end sits at the least coordinate the range allows
C2_Witness ==
    /\ scene.built
    /\ \E a, b \in 1..Len(scene.comps) :
         /\ scene.comps[a].orientation = "h"
         /\ scene.comps[a].attrs.lead_end_1[1] = vx1 + margin
         /\ scene.comps[a].attrs.lead_len = 24
         /\ scene.comps[b].orientation = "v"
         /\ scene.comps[b].attrs.lead_end_1[2] = vy1 + margin
    /\ \E n \in 1..Len(scene.markers) :
         scene.markers[n].center[1] = vx2 - margin - jump_inset

\* C3: every returned scene holds exactly one ComponentGT per entry of
\* component_specs (11, none duplicated or missing) and exactly two markers,
\* one junction and one wire_jump.
C3_Completeness ==
    SceneReturned =>
        /\ Len(scene.comps) = Len(component_specs)
        /\ Len(scene.comps) = 11
        /\ Cids(scene.comps) = Cids(component_specs)
        /\ Cardinality(Cids(scene.comps)) = 11
        /\ Len(scene.markers) = 2
        /\ Cardinality({n \in 1..2 : scene.markers[n].mtype = "junction"}) = 1
        /\ Cardinality({n \in 1..2 : scene.markers[n].mtype = "wire_jump"}) = 1

\* a scene returned by an attempt that followed a failed one
C3_Witness ==
    /\ scene.built
    /\ attempt > 1
    /\ Len(scene.comps) = 11
    /\ Len(scene.markers) = 2

\* C4: every attempt starts its first search with empty occupied, comps,
\* markers and cmds, also after a failed attempt, and the scene exported holds
\* the elements of the successful attempt alone.
C4_AttemptStartsEmpty ==
    /\ (pc = "place_transformer" /\ tries = 0) =>
           (occupied = <<>> /\ comps = <<>> /\ markers = <<>> /\ cmds = <<>>)
    /\ json.written =>
           /\ json.components = comps
           /\ json.markers = markers
           /\ Len(json.components) = Len(component_specs)
           /\ Len(scene.body) = 1 + Len(cmds)
           /\ Len(cmds) = 5 + 3 * (Len(component_specs) - 1) + 8

\* the second attempt starts after the first one failed with elements placed
C4_Witness ==
    /\ pc = "place_transformer"
    /\ tries = 0
    /\ attempt = 2
    /\ last_err \in PlacementFailure

\* steps one attempt takes at most, and the count of steps generate_one has
\* behind it at each position if every search and every attempt ran to its end
AttemptSpan == (Len(component_specs) + 2) * (MaxTries + 2) + 8
Progress ==
    CASE pc = "start"             -> 0
      [] pc = "retry_loop"        -> 1 + attempt * AttemptSpan
      [] pc = "scene_init"        -> 2 + (attempt - 1) * AttemptSpan
      [] pc = "place_transformer" -> 3 + (attempt - 1) * AttemptSpan + tries
      [] pc = "spec_loop"         -> 3 + (attempt - 1) * AttemptSpan + i * (MaxTries + 2)
      [] pc = "place_two_pin"     -> 4 + (attempt - 1) * AttemptSpan + i * (MaxTries + 2) + tries
      [] pc = "junction"          -> attempt * AttemptSpan - 3
      [] pc = "wire_jump"         -> attempt * AttemptSpan - 2
      [] pc = "return_scene"      -> attempt * AttemptSpan - 1
      [] pc = "write_tex"         -> 2 + MaxScenes * AttemptSpan
      [] pc = "pdflatex"          -> 3 + MaxScenes * AttemptSpan
      [] pc = "pdftoppm"          -> 4 + MaxScenes * AttemptSpan
      [] pc = "write_json"        -> 5 + MaxScenes * AttemptSpan
      [] pc = "done"              -> 6 + MaxScenes * AttemptSpan
      [] pc = "error"             -> 6 + MaxScenes * AttemptSpan

\* C5: each search tries at most the per-element budget of candidates,
\* generate_one makes at most the whole-scene budget of attempts, stops at the
\* first that succeeds, raises the last failure when all fail without a
\* further attempt, and scene construction comes to an end: every step raises
\* a count of steps that the two budgets bound.
C5_BoundedRetry ==
    /\ [](/\ tries <= MaxTries
          /\ attempt <= MaxScenes
          /\ err \in PlacementFailure => (attempt = MaxScenes /\ err = last_err
                                            /\ pc = "error" /\ ~ scene.built)
          /\ Progress <= 6 + MaxScenes * AttemptSpan)
    /\ [][/\ pc = "return_scene" => (pc' = "write_tex" /\ attempt' = attempt)
          /\ attempt' # attempt => (attempt' = attempt + 1 /\ ~ scene.built)
          /\ last_err' # last_err => (tries = MaxTries /\ pc' = "retry_loop")
          /\ Progress' > Progress]_vars

\* every attempt failed and the last failure was raised
C5_Witness ==
    /\ pc = "error"
    /\ attempt = MaxScenes
    /\ tries = MaxTries
    /\ err \in PlacementFailure

\* C6 as stated: the ground truth is written only after the scene was built,
\* and when generate_one ends in an error no file of the sample was written.
C6_NoFileOnError ==
    /\ json.written => scene.built
    /\ pc = "error" => files = {}

\* C6 amended: the ground truth is written only after the scene was built and
\* rendered, and when generate_one ends in an error the ground truth has not
\* been written; no file at all after whole-scene infeasibility, the .tex
\* alone after pdflatex left no PDF, the .tex and the PDF after pdftoppm left
\* no PNG.
C6_NoGroundTruthOnError ==
    /\ (json.written \/ "json" \in files) =>
           (scene.built /\ json.written /\ files = {"tex", "pdf", "png", "json"})
    /\ pc = "error" =>
           /\ ~ json.written
           /\ err \in PlacementFailure => files = {}
           /\ err = "pdflatex did not produce PDF" => files = {"tex"}
           /\ err = "pdftoppm did not produce png" => files = {"tex", "pdf"}

\* generate_one ended in an error of the rasterizer with files left behind
C6_Witness ==
    /\ pc = "error"
    /\ err = "pdftoppm did not produce png"
    /\ files = {"tex", "pdf"}

\* C7 as stated: rects_overlap is true unless the rectangles are separated by
\* at least pad along an axis (false at a gap of exactly pad), and symmetric.
C7_SeparatedAtLeastPad ==
    rres.applied =>
        /\ rres.ab = ~ SeparatedByAtLeast(ra, rb, rpad)
        /\ rres.ab = rres.ba

\* C7 amended: rects_overlap is true unless the rectangles are separated by
\* strictly more than pad along an axis (true at a gap of exactly pad), and
\* symmetric.
C7_SeparatedMoreThanPad ==
    rres.applied =>
        /\ rres.ab = ~ SeparatedByMoreThan(ra, rb, rpad)
        /\ rres.ab = rres.ba

\* rects_overlap applied to rectangles whose largest gap is exactly pad
C7_Witness ==
    /\ rres.applied
    /\ rpad > 0
    /\ Max(GapX(ra, rb), GapY(ra, rb)) = rpad
    /\ rres.ab

C10_OccupiedAccumulator ==
    /\ [](/\ Len(occupied) = Len(comps)
          /\ \A a, b \in 1..Len(occupied) :
                a # b => SeparatedByMoreThan(occupied[a], occupied[b], overlap_pad))
    /\ [][/\ pc # "scene_init" =>
               /\ IsPrefix(occupied, occupied')
               /\ Len(occupied') <= Len(occupied) + 1
               /\ Len(occupied') = Len(occupied) + 1 => Len(comps') = Len(comps) + 1
          /\ tries' = tries + 1 =>
               (occupied' = occupied /\ comps' = comps /\ cmds' = cmds)]_vars

\* all eleven regions recorded, the last after a rejected candidate
C10_Witness ==
    /\ pc = "spec_loop"
    /\ Len(occupied) = 11
    /\ tries > 0

====
